---- MODULE Spec2Model ----
(***************************************************************************)
(* The Tegra X1 SPI controller driver in PIO mode (src/src/spi/mod.rs):    *)
(* one driver thread stepping through init, flush_fifos, pio_send_packet   *)
(* and pio_receive_packet, one register access per step, interleaved with  *)
(* the controller, which completes a triggered transaction and carries out *)
(* the two FIFO flushes on its own schedule.                               *)
(*                                                                         *)
(* A 32-bit word is the pair <<high 16 bits, low 16 bits>>, so that the    *)
(* width of u32 is kept with machine integers.                             *)
(***************************************************************************)
EXTENDS Integers, Sequences, FiniteSets, TLC

VARIABLES
    pc,         \* position of the driver thread
    ret,        \* where flush_fifos returns to
    op,         \* the call in progress, or the last one made
    data,       \* the caller's buffer
    result,     \* outcome of the call: none, unit, ok, err, panic
    tmp,        \* the value read by the read half of a FIFO_STATUS modify
    i,          \* number of buffer positions already filled by the receive loop
    cmd,        \* SPI_COMMAND_0
    rdy,        \* SPI_TRANSFER_STATUS_0::RDY
    fifo,       \* SPI_FIFO_STATUS_0
    blk,        \* SPI_DMA_BLK_SIZE_0
    txFifo,     \* words held by the transmit FIFO
    rxFifo,     \* words held by the receive FIFO
    lastTx,     \* words the controller shifted out in the last transmit
    loopback,   \* the register block feeds the receive FIFO from lastTx
    trace,      \* bus-visible events of the call in progress
    txLog,      \* words written to SPI_TX_FIFO_0 in the call
    rxLog,      \* words read from SPI_RX_FIFO_0 in the call
    pre,        \* TX_EN, RDY and block size at the moment of the call
    fsAtCheck,  \* FIFO_STATUS as it was when the error bit was inspected
    data0,      \* the caller's buffer at the moment of the call
    prevSend,   \* buffer of the send that returned Ok right before this call
    follows     \* for a flush_fifos made right after init or flush_fifos
                \* returned: that call, and RDY and FIFO_STATUS as it left them

vars == <<pc, ret, op, data, result, tmp, i, cmd, rdy, fifo, blk, txFifo,
          rxFifo, lastTx, loopback, trace, txLog, rxLog, pre, fsAtCheck,
          data0, prevSend, follows>>

callVars  == <<ret, op, data, result, tmp, i>>
ghostVars == <<txLog, rxLog, pre, fsAtCheck, data0, prevSend, follows>>
hwVars    == <<txFifo, rxFifo, lastTx, loopback>>

\* ------------------------------------------------------------------ bounds

\* Largest receive buffer: the depth of the receive FIFO in the model.
FifoCapacity == 4

\* Largest buffer handed to send.
MaxSendLen == 5

\* ------------------------------------------------------------------- words

Min(a, b) == IF a < b THEN a ELSE b

Take(s, n) == SubSeq(s, 1, Min(Len(s), n))

\* (n as u32) for a small natural n.
U32(n) == <<0, n>>

\* u32::from_le_bytes on a four byte array: data[1] is the least significant.
FromLeBytes(d) == <<d[4] * 256 + d[3], d[2] * 256 + d[1]>>

\* (w as u8): the low eight bits of a word.
AsU8(w) == w[2] % 256

\* (len - 1) as u32 where the subtraction wrapped: usize::MAX as u32.
WrappedLenMinusOne == <<65535, 65535>>

\* ------------------------------------------------------------------ inputs

SendByte(p, k) ==
    IF p = 1 THEN k
    ELSE CASE k = 1 -> 222 [] k = 2 -> 173 [] k = 3 -> 190 [] k = 4 -> 239
           [] OTHER -> 255

SendBufs == { [k \in 1..n |-> SendByte(p, k)] : n \in 0..MaxSendLen, p \in 1..2 }

RecvBufs == { [k \in 1..n |-> 170] : n \in 0..FifoCapacity }

\* The k-th word of incoming stream p; its upper 24 bits are not zero.
RxWord(p, k) == <<p, 256 * p + 16 * p + k>>

ErrBits == {"ERR", "TX_FIFO_OVF", "TX_FIFO_UNR", "RX_FIFO_OVF", "RX_FIFO_UNR"}

\* What a transaction can report: nothing, any combination with ERR, or
\* overflow and underrun bits with ERR clear.
ErrReports ==
    {e \in SUBSET ErrBits : "ERR" \in e}
        \cup {{}, {"TX_FIFO_OVF"}, ErrBits \ {"ERR"}}

\* ---------------------------------------------------------------- registers

ResetCmd == [PACKED |-> 1, BIT_LEN |-> 31, TX_EN |-> 0, RX_EN |-> 0, PIO |-> 0,
             CS_SW_HW |-> 0, CS_SW_VAL |-> 1, CS_SEL |-> 1]

ResetFifo == [ERR |-> 0, TX_FIFO_OVF |-> 0, TX_FIFO_UNR |-> 0, RX_FIFO_OVF |-> 0,
              RX_FIFO_UNR |-> 0, RX_FIFO_FLUSH |-> 0, TX_FIFO_FLUSH |-> 0]

Snapshot == [TX_EN |-> cmd.TX_EN, RDY |-> rdy, BLK |-> blk]

Event(name, arg) == [ev |-> name, arg |-> arg]

Log(name, arg) == trace' = Append(trace, Event(name, arg))

\* A poll of a flag is logged once per run of polls.
LogPoll(name) ==
    trace' = IF trace # <<>> /\ trace[Len(trace)] = Event(name, 0)
             THEN trace ELSE Append(trace, Event(name, 0))

InitWith(lb) ==
    /\ pc = "idle" /\ ret = "done" /\ op = "none" /\ data = <<>>
    /\ result = "none" /\ tmp = ResetFifo /\ i = 0
    /\ cmd = ResetCmd /\ rdy = TRUE /\ fifo = ResetFifo /\ blk = U32(0)
    /\ txFifo = <<>> /\ rxFifo = <<>> /\ lastTx = <<>>
    /\ loopback = lb
    /\ trace = <<>> /\ txLog = <<>> /\ rxLog = <<>>
    /\ pre = [TX_EN |-> 0, RDY |-> TRUE, BLK |-> U32(0)]
    /\ fsAtCheck = <<>> /\ data0 = <<>> /\ prevSend = <<>> /\ follows = <<>>

\* The controller after reset, its receive FIFO fed by the bus.
Init == InitWith(FALSE)

\* The same against a register block that feeds the receive FIFO from what
\* was written to the transmit FIFO port.
InitLoopback == InitWith(TRUE)

\* What every call starts with: the outcome and the per-call records are reset.
Enter(name, buf, first, back) ==
    /\ pc = "idle"
    /\ pc' = first /\ ret' = back /\ op' = name /\ data' = buf
    /\ result' = "none" /\ i' = 0
    /\ trace' = <<>> /\ txLog' = <<>> /\ rxLog' = <<>>
    /\ pre' = Snapshot /\ fsAtCheck' = <<>> /\ data0' = buf
    /\ prevSend' = IF op = "send" /\ result = "ok" THEN data ELSE <<>>
    /\ follows' = IF name = "flush" /\ op \in {"init", "flush"} /\ result = "unit"
                    THEN <<[op |-> op, rdy |-> rdy, fifo |-> fifo]>>
                    ELSE <<>>
    /\ UNCHANGED <<tmp, cmd, rdy, fifo, blk, hwVars>>

\* ------------------------------------------------------- wait_until_ready

\* A wait whose loop condition is inverted.
ReadyExit_Inverted(r) == ~r

\* A wait that gives up although RDY still reads as clear.
ReadyExit_GivesUp(r) == TRUE

\* The loop condition of wait_until_ready is left when RDY reads as set.
ReadyExit(r) == r

WaitUntilReady(at, next) ==
    /\ pc = at
    /\ pc' = IF ReadyExit(rdy) THEN next ELSE at
    /\ LogPoll("poll_rdy")
    /\ UNCHANGED <<callVars, cmd, rdy, fifo, blk, hwVars, ghostVars>>

\* ------------------------------------------------------------ flush_fifos

FlushWait == WaitUntilReady("f_wait", "f_mod_rd")

FlushModifyRead ==
    /\ pc = "f_mod_rd" /\ pc' = "f_mod_wr"
    /\ tmp' = fifo
    /\ UNCHANGED <<ret, op, data, result, i, cmd, rdy, fifo, blk, hwVars,
                   trace, ghostVars>>

FlushRequest(fs) == [fs EXCEPT !.RX_FIFO_FLUSH = 1, !.TX_FIFO_FLUSH = 1]

FlushModifyWrite ==
    /\ pc = "f_mod_wr" /\ pc' = "f_chk_rx"
    /\ fifo' = FlushRequest(tmp)
    /\ tmp' = ResetFifo
    /\ Log("flush_req", 0)
    /\ UNCHANGED <<ret, op, data, result, i, cmd, rdy, blk, hwVars, ghostVars>>

\* while RX_FIFO_FLUSH.is_set() && TX_FIFO_FLUSH.is_set(): two reads, the
\* second made only when the first saw the bit set.
FlushCheckRx ==
    /\ pc = "f_chk_rx"
    /\ pc' = IF fifo.RX_FIFO_FLUSH = 1 THEN "f_chk_tx" ELSE "f_ret"
    /\ LogPoll("poll_flush")
    /\ UNCHANGED <<callVars, cmd, rdy, fifo, blk, hwVars, ghostVars>>

FlushCheckTx ==
    /\ pc = "f_chk_tx"
    /\ pc' = IF fifo.TX_FIFO_FLUSH = 1 THEN "f_chk_rx" ELSE "f_ret"
    /\ UNCHANGED <<callVars, cmd, rdy, fifo, blk, hwVars, trace, ghostVars>>

FlushReturn ==
    /\ pc = "f_ret"
    /\ pc' = IF ret = "done" THEN "idle" ELSE ret
    /\ result' = IF ret = "done" THEN "unit" ELSE result
    /\ UNCHANGED <<ret, op, data, tmp, i, cmd, rdy, fifo, blk, hwVars, trace,
                   ghostVars>>

CallFlush == Enter("flush", <<>>, "f_wait", "done")

\* ------------------------------------------------- steps shared by send/receive

Panic ==
    /\ pc' = "panicked" /\ result' = "panic"

\* modify(PACKED::CLEAR + BIT_LEN.val(7))
Unpacked8(c) == [c EXCEPT !.PACKED = 0, !.BIT_LEN = 7]

Configure(at, next) ==
    /\ pc = at /\ pc' = next
    /\ cmd' = Unpacked8(cmd)
    /\ Log("cmd_cfg", 0)
    /\ UNCHANGED <<callVars, rdy, fifo, blk, hwVars, ghostVars>>

\* SPI_DMA_BLK_SIZE_0.set((data.len() - 1) as u32). On an empty buffer the
\* subtraction overflows: a build with overflow checks panics there, a build
\* without them wraps.
\* A block size that is the length, not the length minus one.
BlkSizeFor_NoMinusOne(n) == U32(n)

BlkSizeFor(n) == U32(n - 1)

BlkSize(at, next) ==
    /\ pc = at
    /\ \/ /\ Len(data) >= 1
          /\ blk' = BlkSizeFor(Len(data))
          /\ pc' = next /\ Log("blk_write", 0)
          /\ UNCHANGED result
       \/ /\ Len(data) = 0
          /\ blk' = WrappedLenMinusOne
          /\ pc' = next /\ Log("blk_write", 0)
          /\ UNCHANGED result
       \/ /\ Len(data) = 0
          /\ Panic
          /\ UNCHANGED <<blk, trace>>
    /\ UNCHANGED <<ret, op, data, tmp, i, cmd, rdy, fifo, hwVars, ghostVars>>

\* A ready clear that leaves the flag as it was.
ClearReady_Skipped(at, next) ==
    /\ pc = at /\ pc' = next
    /\ Log("rdy_clear", 0)
    /\ UNCHANGED <<callVars, cmd, rdy, fifo, blk, hwVars, ghostVars>>

\* modify(RDY::CLEAR)
ClearReady(at, next) ==
    /\ pc = at /\ pc' = next
    /\ rdy' = FALSE
    /\ Log("rdy_clear", 0)
    /\ UNCHANGED <<callVars, cmd, fifo, blk, hwVars, ghostVars>>

Usleep(at, next, us) ==
    /\ pc = at /\ pc' = next
    /\ Log("usleep", us)
    /\ UNCHANGED <<callVars, cmd, rdy, fifo, blk, hwVars, ghostVars>>

\* modify(PIO::Go)
TriggerPio(at, next) ==
    /\ pc = at /\ pc' = next
    /\ cmd' = [cmd EXCEPT !.PIO = 1]
    /\ Log("pio", 0)
    /\ UNCHANGED <<callVars, rdy, fifo, blk, hwVars, ghostVars>>

\* SPI_COMMAND_0.get(), the value dropped
DummyRead(at, next) ==
    /\ pc = at /\ pc' = next
    /\ Log("cmd_read", 0)
    /\ UNCHANGED <<callVars, cmd, rdy, fifo, blk, hwVars, ghostVars>>

\* An error check that fails on any of the five bits.
CheckErr_AnyBit(fs) == \E b \in ErrBits : fs[b] = 1

\* SPI_FIFO_STATUS_0.is_set(ERR)
CheckErr(fs) == fs.ERR = 1

\* An error check made after the first element of a receive buffer was
\* already stored.
CheckErrors_DrainsFirst(at, next, okResult) ==
    /\ pc = at
    /\ fsAtCheck' = <<fifo>>
    /\ Log("err_read", 0)
    /\ IF CheckErr(fifo)
         THEN pc' = "c_rd" /\ UNCHANGED result
         ELSE pc' = next /\ result' = okResult
    /\ IF op = "receive" /\ data # <<>>
         THEN data' = [data EXCEPT ![1] = 0] /\ rxLog' = Append(rxLog, <<0, 0>>)
         ELSE UNCHANGED <<data, rxLog>>
    /\ UNCHANGED <<ret, op, tmp, i, cmd, rdy, fifo, blk, hwVars,
                   txLog, pre, data0, prevSend, follows>>

\* if ERR is set, clear_fifo_status and return Err(()); otherwise go on.
CheckErrors(at, next, okResult) ==
    /\ pc = at
    /\ fsAtCheck' = <<fifo>>
    /\ Log("err_read", 0)
    /\ IF CheckErr(fifo)
         THEN pc' = "c_rd" /\ UNCHANGED result
         ELSE pc' = next /\ result' = okResult
    /\ UNCHANGED <<ret, op, data, tmp, i, cmd, rdy, fifo, blk, hwVars,
                   txLog, rxLog, pre, data0, prevSend, follows>>

\* ------------------------------------------------------- clear_fifo_status

ClearModifyRead ==
    /\ pc = "c_rd" /\ pc' = "c_wr"
    /\ tmp' = fifo
    /\ UNCHANGED <<ret, op, data, result, i, cmd, rdy, fifo, blk, hwVars,
                   trace, ghostVars>>

\* A clear that leaves out the last of the five fields.
ClearFifoStatus_NoRxUnr(fs) ==
    [fs EXCEPT !.ERR = 0, !.TX_FIFO_OVF = 0, !.TX_FIFO_UNR = 0, !.RX_FIFO_OVF = 0]

ClearFifoStatus(fs) ==
    [fs EXCEPT !.ERR = 0, !.TX_FIFO_OVF = 0, !.TX_FIFO_UNR = 0,
               !.RX_FIFO_OVF = 0, !.RX_FIFO_UNR = 0]

\* An error path that runs the transaction again instead of returning.
AfterClear_Retry(o) == IF o = "send" THEN "s_pack" ELSE "r_usleep2"

\* Where the error path goes once FIFO_STATUS is cleared: return Err(()).
AfterClear(o) == "idle"

ClearModifyWrite ==
    /\ pc = "c_wr" /\ pc' = AfterClear(op)
    /\ fifo' = ClearFifoStatus(tmp)
    /\ result' = IF AfterClear(op) = "idle" THEN "err" ELSE result
    /\ tmp' = ResetFifo
    /\ Log("err_clear", 0)
    /\ UNCHANGED <<ret, op, data, i, cmd, rdy, blk, hwVars, ghostVars>>

\* -------------------------------------------------------- pio_send_packet

CallSend == \E b \in SendBufs : Enter("send", b, "f_wait", "s_cfg")

SendConfigure == Configure("s_cfg", "s_blk")

SendBlkSize == BlkSize("s_blk", "s_rdy_clr")

SendClearReady == ClearReady("s_rdy_clr", "s_txen")

TxEnSet(c) == [c EXCEPT !.TX_EN = 1]

SendEnable ==
    /\ pc = "s_txen" /\ pc' = "s_pack"
    /\ cmd' = TxEnSet(cmd)
    /\ Log("tx_en_set", 0)
    /\ UNCHANGED <<callVars, rdy, fifo, blk, hwVars, ghostVars>>

\* u32::from_le_bytes(data.try_into().unwrap()): the conversion to [u8; 4]
\* fails, and unwrap panics, unless the slice has exactly four bytes.
SendWriteFifo ==
    /\ pc = "s_pack"
    /\ IF Len(data) = 4
         THEN /\ pc' = "s_usleep2"
              /\ txFifo' = Append(txFifo, FromLeBytes(data))
              /\ txLog' = Append(txLog, FromLeBytes(data))
              /\ Log("tx_write", 0)
              /\ UNCHANGED result
         ELSE /\ Panic
              /\ UNCHANGED <<txFifo, txLog, trace>>
    /\ UNCHANGED <<ret, op, data, tmp, i, cmd, rdy, fifo, blk, rxFifo, lastTx,
                   loopback, rxLog, pre, fsAtCheck, data0, prevSend, follows>>

\* A settling delay of the wrong length.
SendSettle_WrongDelay == Usleep("s_usleep2", "s_pio", 1)

SendSettle == Usleep("s_usleep2", "s_pio", 2)

SendTrigger == TriggerPio("s_pio", "s_usleep1")

SendDelay == Usleep("s_usleep1", "s_dummy", 1)

SendDummyRead == DummyRead("s_dummy", "s_wait")

SendWait == WaitUntilReady("s_wait", "s_txen_clr")

\* A send that leaves transmit-enable set.
TxEnClear_Skipped(c) == c

\* A disable that clears the other direction's enable bit.
TxEnClear_WrongBit(c) == [c EXCEPT !.RX_EN = 0]

TxEnClear(c) == [c EXCEPT !.TX_EN = 0]

SendDisable ==
    /\ pc = "s_txen_clr" /\ pc' = "s_chk"
    /\ cmd' = TxEnClear(cmd)
    /\ Log("tx_en_clear", 0)
    /\ UNCHANGED <<callVars, rdy, fifo, blk, hwVars, ghostVars>>

SendCheck == CheckErrors("s_chk", "idle", "ok")

\* ----------------------------------------------------- pio_receive_packet

CallReceive == \E b \in RecvBufs : Enter("receive", b, "f_wait", "r_cfg")

RecvConfigure == Configure("r_cfg", "r_blk")

RecvBlkSize == BlkSize("r_blk", "r_rdy_clr")

RecvClearReady == ClearReady("r_rdy_clr", "r_rxen")

RxEnSet(c) == [c EXCEPT !.RX_EN = 1]

RecvEnable ==
    /\ pc = "r_rxen" /\ pc' = "r_usleep2"
    /\ cmd' = RxEnSet(cmd)
    /\ Log("rx_en_set", 0)
    /\ UNCHANGED <<callVars, rdy, fifo, blk, hwVars, ghostVars>>

RecvSettle == Usleep("r_usleep2", "r_pio", 2)

RecvTrigger == TriggerPio("r_pio", "r_usleep1")

\* A delay after the trigger of the wrong length.
RecvDelay_WrongDelay == Usleep("r_usleep1", "r_dummy", 2)

RecvDelay == Usleep("r_usleep1", "r_dummy", 1)

RecvDummyRead == DummyRead("r_dummy", "r_wait")

RecvWait == WaitUntilReady("r_wait", "r_rxen_clr")

\* A disable copied from send that clears transmit-enable.
RxEnClear_WrongBit(c) == [c EXCEPT !.TX_EN = 0]

RxEnClear(c) == [c EXCEPT !.RX_EN = 0]

RecvDisable ==
    /\ pc = "r_rxen_clr" /\ pc' = "r_chk"
    /\ cmd' = RxEnClear(cmd)
    /\ Log("rx_en_clear", 0)
    /\ UNCHANGED <<callVars, rdy, fifo, blk, hwVars, ghostVars>>

RecvCheck == CheckErrors("r_chk", "r_read", "none")

\* What a read of SPI_RX_FIFO_0 can return: the head of the FIFO, or, the
\* FIFO being empty, a word the driver has no control over.
RxPortWords == IF rxFifo # <<>> THEN {Head(rxFifo)} ELSE {<<0, 0>>, RxWord(2, 9)}

\* *i = SPI_RX_FIFO_0.get() as u8, for the n-th element of the buffer
StoreByte(buf, n, w) == [buf EXCEPT ![n] = AsU8(w)]

\* A drain loop that stops one element early.
RecvMore_OffByOne(n, buf) == n + 1 < Len(buf)

\* for i in data.iter_mut(): the loop goes on while elements are left.
RecvMore(n, buf) == n < Len(buf)

RecvRead ==
    /\ pc = "r_read" /\ RecvMore(i, data)
    /\ \E w \in RxPortWords :
         /\ data' = StoreByte(data, i + 1, w)
         /\ rxLog' = Append(rxLog, w)
    /\ rxFifo' = IF rxFifo # <<>> THEN Tail(rxFifo) ELSE rxFifo
    /\ i' = i + 1
    /\ Log("rx_read", 0)
    /\ UNCHANGED <<pc, ret, op, result, tmp, cmd, rdy, fifo, blk, txFifo,
                   lastTx, loopback, txLog, pre, fsAtCheck, data0, prevSend, follows>>

RecvReturn ==
    /\ pc = "r_read" /\ ~RecvMore(i, data)
    /\ pc' = "idle" /\ result' = "ok"
    /\ UNCHANGED <<ret, op, data, tmp, i, cmd, rdy, fifo, blk, hwVars, trace,
                   ghostVars>>

\* -------------------------------------------------------------------- init

CallInit == Enter("init", <<>>, "i_cfg", "i_cs")

InitMode(c) == [c EXCEPT !.CS_SW_HW = 1, !.CS_SW_VAL = 1, !.PACKED = 0, !.BIT_LEN = 7]

InitConfigure ==
    /\ pc = "i_cfg" /\ pc' = "f_wait"
    /\ cmd' = InitMode(cmd)
    /\ Log("cmd_init", 0)
    /\ UNCHANGED <<callVars, rdy, fifo, blk, hwVars, ghostVars>>

InitSelect(c) == [c EXCEPT !.CS_SEL = 0, !.CS_SW_VAL = 0]

InitChipSelect ==
    /\ pc = "i_cs" /\ pc' = "idle"
    /\ cmd' = InitSelect(cmd)
    /\ result' = "unit"
    /\ Log("cmd_cs", 0)
    /\ UNCHANGED <<ret, op, data, tmp, i, rdy, fifo, blk, hwVars, ghostVars>>

\* ------------------------------------------------------------- controller

\* The controller finishes the transaction the PIO bit started: it raises
\* RDY, drops the PIO bit, reports any errors, shifts the transmit FIFO out
\* and the incoming words in.
BlockCount == IF blk[1] # 0 THEN FifoCapacity ELSE Min(blk[2] + 1, FifoCapacity)

Incoming == IF loopback THEN lastTx ELSE [k \in 1..BlockCount |-> RxWord(1, k)]

HwComplete ==
    /\ cmd.PIO = 1
    /\ rdy' = TRUE
    /\ cmd' = [cmd EXCEPT !.PIO = 0]
    /\ \E e \in ErrReports :
         fifo' = [f \in DOMAIN fifo |-> IF f \in e THEN 1 ELSE fifo[f]]
    /\ IF cmd.TX_EN = 1
         THEN lastTx' = (IF loopback THEN txFifo ELSE <<>>) /\ txFifo' = <<>>
         ELSE UNCHANGED <<lastTx, txFifo>>
    /\ IF cmd.RX_EN = 1
         THEN rxFifo' = Take(rxFifo \o Incoming, FifoCapacity)
         ELSE UNCHANGED rxFifo
    /\ UNCHANGED <<pc, callVars, blk, loopback, trace, ghostVars>>

HwFlushRx ==
    /\ fifo.RX_FIFO_FLUSH = 1
    /\ fifo' = [fifo EXCEPT !.RX_FIFO_FLUSH = 0]
    /\ rxFifo' = <<>>
    /\ UNCHANGED <<pc, callVars, cmd, rdy, blk, txFifo, lastTx, loopback, trace,
                   ghostVars>>

HwFlushTx ==
    /\ fifo.TX_FIFO_FLUSH = 1
    /\ fifo' = [fifo EXCEPT !.TX_FIFO_FLUSH = 0]
    /\ txFifo' = <<>>
    /\ UNCHANGED <<pc, callVars, cmd, rdy, blk, rxFifo, lastTx, loopback, trace,
                   ghostVars>>

Next ==
    \/ CallFlush
    \/ FlushWait
    \/ FlushModifyRead
    \/ FlushModifyWrite
    \/ FlushCheckRx
    \/ FlushCheckTx
    \/ FlushReturn
    \/ ClearModifyRead
    \/ ClearModifyWrite
    \/ CallSend
    \/ SendConfigure
    \/ SendBlkSize
    \/ SendClearReady
    \/ SendEnable
    \/ SendWriteFifo
    \/ SendSettle
    \/ SendTrigger
    \/ SendDelay
    \/ SendDummyRead
    \/ SendWait
    \/ SendDisable
    \/ SendCheck
    \/ CallReceive
    \/ RecvConfigure
    \/ RecvBlkSize
    \/ RecvClearReady
    \/ RecvEnable
    \/ RecvSettle
    \/ RecvTrigger
    \/ RecvDelay
    \/ RecvDummyRead
    \/ RecvWait
    \/ RecvDisable
    \/ RecvCheck
    \/ RecvRead
    \/ RecvReturn
    \/ CallInit
    \/ InitConfigure
    \/ InitChipSelect
    \/ HwComplete
    \/ HwFlushRx
    \/ HwFlushTx

Spec == Init /\ [][Next]_vars

SpecLoopback == InitLoopback /\ [][Next]_vars

\* The steps of the driver thread inside a call: busy-waiting, it is never
\* descheduled for good.
Driver ==
    \/ FlushWait \/ FlushModifyRead \/ FlushModifyWrite \/ FlushCheckRx
    \/ FlushCheckTx \/ FlushReturn \/ ClearModifyRead \/ ClearModifyWrite
    \/ SendConfigure \/ SendBlkSize \/ SendClearReady \/ SendEnable
    \/ SendWriteFifo \/ SendSettle \/ SendTrigger \/ SendDelay
    \/ SendDummyRead \/ SendWait \/ SendDisable \/ SendCheck
    \/ RecvConfigure \/ RecvBlkSize \/ RecvClearReady \/ RecvEnable
    \/ RecvSettle \/ RecvTrigger \/ RecvDelay \/ RecvDummyRead
    \/ RecvWait \/ RecvDisable \/ RecvCheck \/ RecvRead \/ RecvReturn
    \/ InitConfigure \/ InitChipSelect

\* A responsive controller: it completes every triggered transaction and
\* carries out every requested flush.
SpecFair ==
    /\ Init /\ [][Next]_vars
    /\ WF_vars(Driver)
    /\ WF_vars(HwComplete) /\ WF_vars(HwFlushRx) /\ WF_vars(HwFlushTx)

\* ------------------------------------------------------------------ claims

Count(name) == Cardinality({k \in 1..Len(trace) : trace[k].ev = name})

Transfer == op \in {"send", "receive"}

\* The call has come back to its caller with Ok or Err.
Returned == pc = "idle" /\ Transfer /\ result \in {"ok", "err"}

ErrSeen == fsAtCheck # <<>> /\ fsAtCheck[1].ERR = 1

ReadyWaits == {"f_wait", "s_wait", "r_wait"}

\* C1: in every state in which flush_fifos has just left its polling loop,
\* RX_FIFO_FLUSH and TX_FIFO_FLUSH both read 0.
C1_FlushWaitsForBothBits ==
    pc = "f_ret" => fifo.RX_FIFO_FLUSH = 0 /\ fifo.TX_FIFO_FLUSH = 0

\* C2: a send whose buffer is not exactly 4 bytes long ends with a distinct
\* invalid-argument outcome, and at no point of the call has the transmit
\* FIFO port been written, the PIO bit been set, or transmit-enable, the
\* ready flag or the block size been changed.
C2_SendRejectsBadLength ==
    (op = "send" /\ Len(data0) # 4) =>
        /\ pc \in {"idle", "panicked"} => result = "invalid"
        /\ txLog = <<>> /\ Count("tx_write") = 0
        /\ Count("pio") = 0 /\ cmd.PIO = 0
        /\ cmd.TX_EN = pre.TX_EN /\ rdy = pre.RDY /\ blk = pre.BLK

\* C3: a send or receive that found ERR set when it inspected FIFO_STATUS
\* returns Err, and when a send or receive has returned Err the five bits
\* ERR, TX_FIFO_OVF, TX_FIFO_UNR, RX_FIFO_OVF and RX_FIFO_UNR all read 0.
C3_ClearOnReport ==
    (pc = "idle" /\ Transfer) =>
        /\ ErrSeen => result = "err"
        /\ result = "err" => ErrSeen /\ \A b \in ErrBits : fifo[b] = 0

C3_Witness ==
    /\ pc = "idle" /\ op = "receive" /\ result = "err"
    /\ fsAtCheck # <<>> /\ \A b \in ErrBits : fsAtCheck[1][b] = 1

\* C4: when send on exactly 4 bytes has returned Ok, TX_EN and the FIFO
\* status ERR bit are both clear.
C4_SendOkLeavesClean ==
    (Returned /\ op = "send" /\ Len(data0) = 4 /\ result = "ok") =>
        cmd.TX_EN = 0 /\ fifo.ERR = 0

C4_Witness ==
    /\ Returned /\ op = "send" /\ Len(data0) = 4 /\ result = "ok"
    /\ Count("tx_en_set") = 1 /\ Count("pio") = 1

\* C5: when a receive into a buffer of length L, 1 <= L <= FIFO capacity,
\* has returned Ok, the receive FIFO port was read exactly L times, the
\* buffer still has L elements, and its k-th element is the low 8 bits of
\* the k-th word read.
C5_ReceiveDrainsInOrder ==
    (Returned /\ op = "receive" /\ result = "ok"
        /\ Len(data0) >= 1 /\ Len(data0) <= FifoCapacity) =>
        /\ Len(rxLog) = Len(data0) /\ Count("rx_read") = Len(data0)
        /\ Len(data) = Len(data0)
        /\ \A k \in 1..Len(data0) : data[k] = rxLog[k][2] % 256

C5_Witness ==
    /\ Returned /\ op = "receive" /\ result = "ok" /\ Len(data0) = 4
    /\ rxLog[1] # rxLog[2] /\ rxLog[1][1] # 0 /\ rxLog[1][2] >= 256
    /\ data # data0

\* C6: against a register block whose receive FIFO is fed from the words
\* written to the transmit FIFO port, a receive of 4 bytes that returned Ok
\* right after a send of the 4 bytes b that returned Ok has b in its buffer.
C6_RoundTrip ==
    (Returned /\ op = "receive" /\ result = "ok" /\ Len(data0) = 4
        /\ Len(prevSend) = 4) => data = prevSend

\* C7: a send or receive that has returned has inspected FIFO_STATUS, and it
\* returned Err exactly when the ERR bit was set at that moment, whatever
\* the four overflow and underrun bits were.
C7_ErrIffErrBit ==
    Returned => fsAtCheck # <<>> /\ (result = "err" <=> fsAtCheck[1].ERR = 1)

C7_Witness ==
    /\ Returned /\ result = "ok" /\ fsAtCheck # <<>>
    /\ fsAtCheck[1].ERR = 0
    /\ \A b \in ErrBits \ {"ERR"} : fsAtCheck[1][b] = 1

\* C8: in a send or receive the PIO bit is set at most once and the transmit
\* FIFO port written at most once; a call that has returned has set the PIO
\* bit exactly once, a send has written the port exactly once and a receive
\* never; and a call that returned Err cleared FIFO_STATUS once, as its last
\* bus access.
C8_NoRetry ==
    Transfer =>
        /\ Count("pio") <= 1 /\ Count("tx_write") <= 1
        /\ Returned =>
             /\ Count("pio") = 1
             /\ Count("tx_write") = (IF op = "send" THEN 1 ELSE 0)
             /\ Len(txLog) = Count("tx_write")
        /\ (Returned /\ result = "err") =>
             /\ Count("err_clear") = 1
             /\ trace[Len(trace)].ev = "err_clear"

C8_Witness ==
    /\ Returned /\ op = "send" /\ result = "err"
    /\ Count("pio") = 1 /\ Count("err_clear") = 1

\* C9: a ready-wait is left only by a step that read the ready flag as set,
\* and the flush poll only by a step that read a flush bit as clear; while
\* the flag reads clear the call stays in the wait with no outcome.
C9_NoTimeout ==
    [][ /\ (pc \in ReadyWaits /\ pc' # pc) => rdy
        /\ (pc \in ReadyWaits /\ ~rdy) => (pc' = pc /\ result' = result)
        /\ (pc = "f_chk_rx" /\ pc' = "f_ret") => fifo.RX_FIFO_FLUSH = 0
        /\ (pc = "f_chk_tx" /\ pc' = "f_ret") => fifo.TX_FIFO_FLUSH = 0
        /\ (pc \in {"f_chk_rx", "f_chk_tx"}) => pc' \in {"f_chk_rx", "f_chk_tx", "f_ret"}
      ]_vars

C9_Witness ==
    /\ pc = "s_txen_clr" /\ rdy
    /\ trace[Len(trace)].ev = "poll_rdy"

\* C10: when send or receive has returned, with Ok or with Err, TX_EN and
\* RX_EN are both clear.
C10_EnablesClearAtReturn ==
    Returned => cmd.TX_EN = 0 /\ cmd.RX_EN = 0

C10_Witness ==
    /\ Returned /\ op = "receive" /\ result = "err"
    /\ Count("rx_en_set") = 1 /\ Count("rx_en_clear") = 1

FlushBits(fs) == <<fs.RX_FIFO_FLUSH, fs.TX_FIFO_FLUSH>>

\* C11: when a flush_fifos made right after init has returned, the ready
\* flag is set and both flush bits are clear; and when a flush_fifos made
\* right after a flush_fifos has returned, the ready flag and FIFO_STATUS
\* are as the first one left them.
C11_FlushAfterInit ==
    (pc = "idle" /\ op = "flush" /\ result = "unit" /\ follows # <<>>) =>
        /\ follows[1].op = "init" => rdy /\ FlushBits(fifo) = <<0, 0>>
        /\ follows[1].op = "flush" => rdy = follows[1].rdy /\ fifo = follows[1].fifo

FlushPcs == {"f_wait", "f_mod_rd", "f_mod_wr", "f_chk_rx", "f_chk_tx", "f_ret"}

\* C12: when init has returned, CS_SW_HW is set, CS_SEL is 0, CS_SW_VAL is
\* clear, PACKED is clear and BIT_LEN is 7; chip-select is high all through
\* the call of flush_fifos; and once init has driven chip-select low the
\* flush it requested has finished, both flush bits reading 0.
C12_InitChipSelect ==
    op = "init" =>
        /\ (pc = "idle" /\ result = "unit") =>
             /\ cmd.CS_SW_HW = 1 /\ cmd.CS_SEL = 0 /\ cmd.CS_SW_VAL = 0
             /\ cmd.PACKED = 0 /\ cmd.BIT_LEN = 7
        /\ pc \in FlushPcs => cmd.CS_SW_VAL = 1
        /\ Count("cmd_cs") = 1 =>
             Count("flush_req") = 1 /\ FlushBits(fifo) = <<0, 0>>

IsPrefix(a, b) == Len(a) <= Len(b) /\ \A k \in 1..Len(a) : a[k] = b[k]

\* The bus accesses of flush_fifos, in program order.
FlushOrder == <<Event("poll_rdy", 0), Event("flush_req", 0), Event("poll_flush", 0)>>

\* The bus accesses and delays after the flush, with enable bit en.
TransferOrder(en, write) ==
    <<Event("cmd_cfg", 0), Event("blk_write", 0), Event("rdy_clear", 0),
      Event(en \o "_set", 0)>>
    \o write \o
    <<Event("usleep", 2), Event("pio", 0), Event("usleep", 1),
      Event("cmd_read", 0), Event("poll_rdy", 0), Event(en \o "_clear", 0),
      Event("err_read", 0)>>

SendOrder == FlushOrder \o TransferOrder("tx_en", <<Event("tx_write", 0)>>)

RecvOrder == FlushOrder \o TransferOrder("rx_en", <<>>)

\* C13: at every point of a send of 4 bytes the bus accesses and delays made
\* so far are an initial part of: flush, unpacked 8-bit command write,
\* block-size write, ready clear, TX_EN set, one FIFO write, delay 2, PIO
\* set, delay 1, command read, ready poll, TX_EN clear, error-bit read (and
\* on an error the FIFO_STATUS clear); a send that returned made all of
\* them, and the word it wrote is the little-endian word of the buffer.
C13_SendOrder ==
    (op = "send" /\ Len(data0) = 4) =>
        /\ IsPrefix(trace, SendOrder \o <<Event("err_clear", 0)>>)
        /\ Count("cmd_cfg") = 1 => cmd.PACKED = 0 /\ cmd.BIT_LEN = 7
        /\ Count("tx_write") = 1 =>
             txLog = << <<data0[3] + 256 * data0[4], data0[1] + 256 * data0[2]>> >>
        /\ Returned => Len(trace) >= Len(SendOrder)

C13_Witness ==
    /\ Returned /\ op = "send" /\ result = "ok" /\ trace = SendOrder
    /\ data0 = <<222, 173, 190, 239>>

\* C14: a receive never writes the transmit FIFO port and never sets TX_EN;
\* its bus accesses and delays are an initial part of the order of a send
\* with RX_EN for TX_EN and no FIFO write, so the delays are 2 before the
\* PIO trigger and 1 after it and no others; and every read of the receive
\* FIFO port comes after the whole of that order, the error bit having been
\* read as clear and RX_EN being clear.
C14_ReceiveOrder ==
    op = "receive" =>
        /\ Count("tx_write") = 0 /\ txLog = <<>>
        /\ Count("tx_en_set") = 0 /\ cmd.TX_EN = 0
        /\ IsPrefix(SubSeq(trace, 1, Min(Len(trace), Len(RecvOrder))), RecvOrder)
        /\ \A k \in 1..Len(trace) :
             k > Len(RecvOrder) =>
                 \/ trace[k].ev = "rx_read"
                 \/ trace[k].ev = "err_clear" /\ k = Len(trace)
        /\ Count("rx_read") > 0 =>
             /\ fsAtCheck # <<>> /\ fsAtCheck[1].ERR = 0
             /\ cmd.RX_EN = 0 /\ rdy
             /\ Count("err_clear") = 0
        /\ Returned => Count("usleep") = 2

C14_Witness ==
    /\ Returned /\ op = "receive" /\ result = "ok"
    /\ Len(trace) = Len(RecvOrder) + 4 /\ Count("rx_read") = 4

\* C15: in a send or receive the ready flag is clear from the ready clear up
\* to the PIO trigger and for as long as the triggered transaction is
\* pending, and once the call is past its ready-wait the transaction it
\* triggered has completed: the wait is never left on a ready flag that was
\* set before the trigger.
C15_NoStaleReady ==
    Transfer =>
        /\ (Count("rdy_clear") = 1 /\ Count("pio") = 0) => ~rdy
        /\ cmd.PIO = 1 => ~rdy /\ Count("pio") = 1
        /\ (Count("tx_en_clear") + Count("rx_en_clear") >= 1) =>
             rdy /\ cmd.PIO = 0 /\ Count("pio") = 1

C15_Witness ==
    /\ pc = "s_txen_clr" /\ rdy /\ cmd.PIO = 0
    /\ pre.RDY /\ Count("pio") = 1

\* C16: in a send or receive with a buffer of length L >= 1 the block-size
\* register is written at most once, before the enable bit is set, and from
\* the PIO trigger on it holds L - 1.
C16_BlockSize ==
    (Transfer /\ Len(data0) >= 1) =>
        /\ Count("blk_write") <= 1
        /\ \A k \in 1..Len(trace) :
             trace[k].ev \in {"tx_en_set", "rx_en_set"} =>
                 \E j \in 1..(k - 1) : trace[j].ev = "blk_write"
        /\ Count("pio") >= 1 =>
             blk = <<0, Len(data0) - 1>> /\ Count("blk_write") = 1

C16_Witness ==
    /\ op = "receive" /\ Len(data0) = 3 /\ cmd.PIO = 1 /\ blk = <<0, 2>>
    /\ pre.BLK # blk

\* A step in which the driver raises a flush bit: the controller only ever
\* lowers them.
RaisesFlush ==
    \/ fifo'.RX_FIFO_FLUSH > fifo.RX_FIFO_FLUSH
    \/ fifo'.TX_FIFO_FLUSH > fifo.TX_FIFO_FLUSH

\* C17: the write with which flush_fifos requests the flush is made with the
\* ready flag set and last observed set, and sets both flush bits; and no
\* step of the driver raises a flush bit other than that write, which raises
\* them together, so that the driver never requests one flush alone.
C17_FlushRequest ==
    [][ /\ (pc = "f_mod_wr" /\ pc' # pc) =>
             /\ rdy /\ trace[Len(trace)].ev = "poll_rdy"
             /\ FlushBits(fifo') = <<1, 1>>
        /\ RaisesFlush => pc = "f_mod_wr" /\ FlushBits(fifo') = <<1, 1>>
      ]_vars

\* A call of flush_fifos, of send with 4 bytes or of receive with at least
\* one byte is in progress.
InCall ==
    /\ pc \notin {"idle", "panicked"}
    /\ \/ op = "flush"
       \/ op = "send" /\ Len(data0) = 4
       \/ op = "receive" /\ Len(data0) >= 1

\* C18: with a controller that completes every triggered transaction and
\* carries out every requested flush, every call of flush_fifos, of send
\* with 4 bytes and of receive with 1 to FIFO-capacity bytes returns.
C18_Termination ==
    InCall ~> (pc = "idle" /\ result \in {"unit", "ok", "err"})

C18_Witness ==
    /\ pc = "r_wait" /\ ~rdy /\ cmd.PIO = 1 /\ Len(data0) = FifoCapacity
    /\ fifo.TX_FIFO_FLUSH = 1

\* C19: when receive has returned Err it has read the receive FIFO port not
\* once and the caller's buffer is as it was before the call.
C19_ErrLeavesBuffer ==
    (Returned /\ op = "receive" /\ result = "err") =>
        /\ rxLog = <<>> /\ Count("rx_read") = 0 /\ i = 0
        /\ data = data0

C19_Witness ==
    /\ Returned /\ op = "receive" /\ result = "err"
    /\ Len(data0) = 4 /\ Len(rxFifo) = 4

\* C20: TX_EN and RX_EN are never both set, and whenever the PIO bit is set
\* exactly one of them is set.
C20_OneDirection ==
    /\ ~(cmd.TX_EN = 1 /\ cmd.RX_EN = 1)
    /\ cmd.PIO = 1 => cmd.TX_EN + cmd.RX_EN = 1

C20_Witness ==
    /\ cmd.PIO = 1 /\ cmd.RX_EN = 1 /\ cmd.TX_EN = 0
    /\ op = "receive" /\ Len(prevSend) = 4

====
